---- MODULE Spec2Model ----
(***************************************************************************)
(* The etcd snapshot creation state machine of the provisioning planner    *)
(* (pkg/capr/planner/etcdcreate.go).  One reconciliation calls             *)
(* createEtcdSnapshot with the control plane object and its persisted      *)
(* status; the returned status is persisted and read by the next           *)
(* reconciliation.                                                         *)
(***************************************************************************)
EXTENDS Integers, Sequences, FiniteSets, TLC

\* Largest number of etcd nodes in the cluster plan.
MaxServers == 2

\* ------------------------------------------------------------------ values

\* A nil *ETCDSnapshotCreate.
Nil == "nil"
\* Two structurally different snapshot requests.
Requests == {"A", "B"}

ETCDSnapshotPhaseStarted == "Started"
ETCDSnapshotPhaseRestartCluster == "RestartCluster"
ETCDSnapshotPhaseFinished == "Finished"
ETCDSnapshotPhaseFailed == "Failed"
\* The empty phase, and a phase string the switch does not know.
PhaseNone == ""
PhaseUnknown == "Unknown"

Phases == {PhaseNone, ETCDSnapshotPhaseStarted, ETCDSnapshotPhaseRestartCluster,
           ETCDSnapshotPhaseFinished, ETCDSnapshotPhaseFailed, PhaseUnknown}

\* The two fields of RKEControlPlaneStatus the state machine owns.
Statuses == [phase : Phases, create : Requests \cup {Nil}]

\* What one etcd node does in a reconciliation: its plan is generated and
\* dispatched and the dispatch returns nil ("ok"), a waiting condition
\* ("waiting") or another error ("failed"); or generating its plan returns a
\* waiting condition ("genwaiting") or another error ("genfailed").
Outcomes == {"ok", "waiting", "failed", "genwaiting", "genfailed"}

\* What findInitNode returns: an init node with a join address, no init node,
\* an init node with an empty join address, or an error.
InitNodeResults == {"found", "none", "nojoin", "err"}

\* What runEtcdSnapshotManagementServiceStart returns.
ServiceResults == {"ok", "waiting", "failed"}

\* ------------------------------------------------------------------ errors

\* An error is its class and its text; the text is a sequence of message
\* tokens, so that a composite text is the concatenation of its parts.
NilErr == [kind |-> "nil", text |-> <<>>]

errWaiting(text) == [kind |-> "waiting", text |-> text]

errorsNew(text) == [kind |-> "error", text |-> text]

IsErrWaiting(err) == err.kind = "waiting"

MsgRefreshing == <<"refreshing etcd create state", 0>>
MsgNoNode == <<"failed to find node to perform etcd snapshot", 0>>
MsgInitNode == <<"findInitNode", 0>>
MsgService == <<"etcd snapshot creation", 0>>

RECURSIVE merrText(_)
\* merr.NewErrors(errs...).Error(): the texts of all errors, joined.
merrText(errs) ==
  IF errs = <<>> THEN <<>> ELSE Head(errs).text \o merrText(Tail(errs))

\* ------------------------------------------------------- phase state setter

\* Mutant: the setter returns a waiting condition on every call.
setEtcdSnapshotCreateState_AlwaysWaiting(status, create, phase) ==
  [status |-> [phase |-> phase, create |-> create],
   err |-> errWaiting(<<MsgRefreshing>>)]

\* Mutant: the setter writes the change and returns nil.
setEtcdSnapshotCreateState_Silent(status, create, phase) ==
  IF status.phase # phase \/ status.create # create
  THEN [status |-> [phase |-> phase, create |-> create], err |-> NilErr]
  ELSE [status |-> status, err |-> NilErr]

\* setEtcdSnapshotCreateState: writes phase and request when either differs
\* and then returns a waiting condition; otherwise returns nil.
setEtcdSnapshotCreateState(status, create, phase) ==
  IF status.phase # phase \/ status.create # create
  THEN [status |-> [phase |-> phase, create |-> create],
        err |-> errWaiting(<<MsgRefreshing>>)]
  ELSE [status |-> status, err |-> NilErr]

resetEtcdSnapshotCreateState(status) ==
  IF status.create = Nil /\ status.phase = PhaseNone
  THEN [status |-> status, err |-> NilErr]
  ELSE setEtcdSnapshotCreateState(status, Nil, PhaseNone)

\* Mutant: a stored request is never replaced by a different one.
startOrRestartEtcdSnapshotCreate_OnlyFirst(status, snapshot) ==
  IF status.create = Nil
  THEN setEtcdSnapshotCreateState(status, snapshot, ETCDSnapshotPhaseStarted)
  ELSE [status |-> status, err |-> NilErr]

startOrRestartEtcdSnapshotCreate(status, snapshot) ==
  IF status.create = Nil \/ snapshot # status.create
  THEN setEtcdSnapshotCreateState(status, snapshot, ETCDSnapshotPhaseStarted)
  ELSE [status |-> status, err |-> NilErr]

\* --------------------------------------------------------------- fan-out

\* The error of generating node i's plan (nil unless generation fails).
generateEtcdSnapshotCreatePlan(outcome, i) ==
  CASE outcome = "genfailed" -> errorsNew(<<<<"plan generation failed", i>>>>)
    [] outcome = "genwaiting" -> errWaiting(<<<<"plan generation waiting", i>>>>)
    [] OTHER -> NilErr

\* The error assignAndCheckPlan returns for node i; its text names the node.
assignAndCheckPlan(outcome, i) ==
  CASE outcome = "failed" -> errorsNew(<<<<"etcd snapshot failed on node", i>>>>)
    [] outcome = "waiting" -> errWaiting(<<<<"etcd snapshot waiting on node", i>>>>)
    [] OTHER -> NilErr

RECURSIVE runEtcdSnapshotCreateLoop_DropWaiting(_, _, _, _)
\* Mutant: a waiting condition of a dispatch is not collected.
runEtcdSnapshotCreateLoop_DropWaiting(servers, i, errs, dispatched) ==
  IF i > Len(servers)
  THEN [errs |-> errs, dispatched |-> dispatched, attempted |-> 1..Len(servers)]
  ELSE LET genErr == generateEtcdSnapshotCreatePlan(servers[i], i)
           err == assignAndCheckPlan(servers[i], i)
       IN IF genErr # NilErr
          THEN [errs |-> <<genErr>>, dispatched |-> dispatched, attempted |-> 1..i]
          ELSE runEtcdSnapshotCreateLoop_DropWaiting(servers, i + 1,
                 IF err # NilErr /\ ~IsErrWaiting(err) THEN Append(errs, err) ELSE errs,
                 dispatched \cup {i})

RECURSIVE runEtcdSnapshotCreateLoop(_, _, _, _)
\* The loop over the etcd servers, from server i on, with the errors
\* collected and the servers dispatched to so far.
runEtcdSnapshotCreateLoop(servers, i, errs, dispatched) ==
  IF i > Len(servers)
  THEN [errs |-> errs, dispatched |-> dispatched, attempted |-> 1..Len(servers)]
  ELSE LET genErr == generateEtcdSnapshotCreatePlan(servers[i], i)
           err == assignAndCheckPlan(servers[i], i)
       IN IF genErr # NilErr
          THEN [errs |-> <<genErr>>, dispatched |-> dispatched, attempted |-> 1..i]
          ELSE runEtcdSnapshotCreateLoop(servers, i + 1,
                 IF err # NilErr THEN Append(errs, err) ELSE errs,
                 dispatched \cup {i})

\* Mutant: no etcd node is no error.
runEtcdSnapshotCreate_EmptyOK(servers) ==
  runEtcdSnapshotCreateLoop(servers, 1, <<>>, {})

\* runEtcdSnapshotCreate: servers is what collect(clusterPlan, isEtcd) gives.
runEtcdSnapshotCreate(servers) ==
  IF Len(servers) = 0
  THEN [errs |-> <<errorsNew(<<MsgNoNode>>)>>, dispatched |-> {}, attempted |-> {}]
  ELSE runEtcdSnapshotCreateLoop(servers, 1, <<>>, {})

RECURSIVE collectErrs_Shadowed(_, _, _, _, _)
\* Mutant: the error is collected after the setter has overwritten it, so
\* the node's own error is lost when the state is set.
collectErrs_Shadowed(errs, status, snapshot, finErrs, stateSet) ==
  IF errs = <<>> THEN [status |-> status, finErrs |-> finErrs]
  ELSE LET err == Head(errs)
           set == setEtcdSnapshotCreateState(status, snapshot, ETCDSnapshotPhaseFailed)
       IN IF err = NilErr
          THEN collectErrs_Shadowed(Tail(errs), status, snapshot, finErrs, stateSet)
          ELSE IF ~IsErrWaiting(err) /\ ~stateSet
          THEN IF set.err # NilErr
               THEN collectErrs_Shadowed(Tail(errs), set.status, snapshot,
                                         Append(finErrs, set.err), stateSet)
               ELSE collectErrs_Shadowed(Tail(errs), set.status, snapshot,
                                         finErrs, TRUE)
          ELSE collectErrs_Shadowed(Tail(errs), status, snapshot,
                                    Append(finErrs, err), stateSet)

RECURSIVE collectErrs_NoFlag(_, _, _, _, _)
\* Mutant: without the stateSet flag every non-waiting error resets the
\* stored state before setting Failed, and reports the setter's signal.
collectErrs_NoFlag(errs, status, snapshot, finErrs, stateSet) ==
  IF errs = <<>> THEN [status |-> status, finErrs |-> finErrs]
  ELSE LET err == Head(errs)
           set == setEtcdSnapshotCreateState(
                    [phase |-> PhaseNone, create |-> Nil], snapshot,
                    ETCDSnapshotPhaseFailed)
       IN IF err = NilErr
          THEN collectErrs_NoFlag(Tail(errs), status, snapshot, finErrs, stateSet)
          ELSE IF ~IsErrWaiting(err)
          THEN collectErrs_NoFlag(Tail(errs), set.status, snapshot,
                                  finErrs \o <<err, set.err>>, stateSet)
          ELSE collectErrs_NoFlag(Tail(errs), status, snapshot,
                                  Append(finErrs, err), stateSet)

RECURSIVE collectErrs(_, _, _, _, _)
\* The loop over the returned errors in phase Started: every error is
\* collected, and a non-waiting one sets the phase to Failed unless stateSet.
collectErrs(errs, status, snapshot, finErrs, stateSet) ==
  IF errs = <<>> THEN [status |-> status, finErrs |-> finErrs]
  ELSE LET err == Head(errs)
           set == setEtcdSnapshotCreateState(status, snapshot, ETCDSnapshotPhaseFailed)
       IN IF err = NilErr
          THEN collectErrs(Tail(errs), status, snapshot, finErrs, stateSet)
          ELSE IF ~IsErrWaiting(err) /\ ~stateSet
          THEN IF set.err # NilErr
               THEN collectErrs(Tail(errs), set.status, snapshot,
                                finErrs \o <<err, set.err>>, stateSet)
               ELSE collectErrs(Tail(errs), set.status, snapshot,
                                Append(finErrs, err), TRUE)
          ELSE collectErrs(Tail(errs), status, snapshot, Append(finErrs, err), stateSet)

\* Mutant: when every node succeeded the phase is set to Finished at once.
phaseStarted_SkipRestart(status, snapshot, servers) ==
  LET run == runEtcdSnapshotCreate(servers)
      fin == collectErrs(run.errs, status, snapshot, <<>>, FALSE)
      set == setEtcdSnapshotCreateState(status, snapshot, ETCDSnapshotPhaseFinished)
  IN IF Len(run.errs) > 0
     THEN [status |-> fin.status, err |-> errWaiting(merrText(fin.finErrs)),
           dispatched |-> run.dispatched, attempted |-> run.attempted,
           svcStarted |-> FALSE]
     ELSE [status |-> set.status, err |-> set.err,
           dispatched |-> run.dispatched, attempted |-> run.attempted,
           svcStarted |-> FALSE]

\* case ETCDSnapshotPhaseStarted of createEtcdSnapshot.
phaseStarted(status, snapshot, servers) ==
  LET run == runEtcdSnapshotCreate(servers)
      fin == collectErrs(run.errs, status, snapshot, <<>>, FALSE)
      set == setEtcdSnapshotCreateState(status, snapshot, ETCDSnapshotPhaseRestartCluster)
  IN IF Len(run.errs) > 0
     THEN [status |-> fin.status, err |-> errWaiting(merrText(fin.finErrs)),
           dispatched |-> run.dispatched, attempted |-> run.attempted,
           svcStarted |-> FALSE]
     ELSE [status |-> set.status, err |-> set.err,
           dispatched |-> run.dispatched, attempted |-> run.attempted,
           svcStarted |-> FALSE]

\* The error runEtcdSnapshotManagementServiceStart returns.
runEtcdSnapshotManagementServiceStart(svc) ==
  CASE svc = "failed" -> errorsNew(<<MsgService>>)
    [] svc = "waiting" -> errWaiting(<<MsgService>>)
    [] OTHER -> NilErr

\* A return of createEtcdSnapshot that dispatched nothing.
Return(status, err) ==
  [status |-> status, err |-> err, dispatched |-> {}, attempted |-> {},
   svcStarted |-> FALSE]

\* Mutant: a successful service restart leaves the phase as it is.
phaseRestartCluster_NoFinish(status, snapshot, svc) ==
  LET err == runEtcdSnapshotManagementServiceStart(svc)
  IN [status |-> status, err |-> err, dispatched |-> {}, attempted |-> {},
      svcStarted |-> TRUE]

\* case ETCDSnapshotPhaseRestartCluster of createEtcdSnapshot.
phaseRestartCluster(status, snapshot, svc) ==
  LET err == runEtcdSnapshotManagementServiceStart(svc)
      set == setEtcdSnapshotCreateState(status, snapshot, ETCDSnapshotPhaseFinished)
  IN IF err # NilErr
     THEN [status |-> status, err |-> err, dispatched |-> {}, attempted |-> {},
           svcStarted |-> TRUE]
     ELSE [status |-> set.status, err |-> set.err, dispatched |-> {},
           attempted |-> {}, svcStarted |-> TRUE]

\* Mutant: phase Failed is handled as phase Started (the snapshot is retried).
phaseSwitch_RetryFailed(cpPhase, status, snapshot, servers, svc) ==
  CASE cpPhase \in {ETCDSnapshotPhaseStarted, ETCDSnapshotPhaseFailed} ->
         phaseStarted(status, snapshot, servers)
    [] cpPhase = ETCDSnapshotPhaseRestartCluster -> phaseRestartCluster(status, snapshot, svc)
    [] cpPhase = ETCDSnapshotPhaseFinished -> Return(status, NilErr)
    [] OTHER ->
         LET set == setEtcdSnapshotCreateState(status, snapshot, ETCDSnapshotPhaseStarted)
         IN Return(set.status, set.err)

\* The switch on controlPlane.Status.ETCDSnapshotCreatePhase.
phaseSwitch(cpPhase, status, snapshot, servers, svc) ==
  CASE cpPhase = ETCDSnapshotPhaseStarted -> phaseStarted(status, snapshot, servers)
    [] cpPhase = ETCDSnapshotPhaseRestartCluster -> phaseRestartCluster(status, snapshot, svc)
    [] cpPhase \in {ETCDSnapshotPhaseFailed, ETCDSnapshotPhaseFinished} ->
         Return(status, NilErr)
    [] OTHER ->
         LET set == setEtcdSnapshotCreateState(status, snapshot, ETCDSnapshotPhaseStarted)
         IN Return(set.status, set.err)

\* Mutant: the guard tests status.Initialized only, not the bootstrap.
createEtcdSnapshot_NoBootstrapCheck(controlPlane, status, init, boot, initNode, servers, svc) ==
  LET reset == resetEtcdSnapshotCreateState(status)
      snapshot == controlPlane.spec
      start == startOrRestartEtcdSnapshotCreate(status, snapshot)
  IN IF controlPlane.spec = Nil THEN Return(reset.status, reset.err)
     ELSE IF ~init THEN Return(status, NilErr)
     ELSE IF initNode = "err" THEN Return(status, errorsNew(<<MsgInitNode>>))
     ELSE IF initNode # "found" THEN Return(status, NilErr)
     ELSE IF start.err # NilErr THEN Return(start.status, start.err)
     ELSE phaseSwitch(controlPlane.status.phase, start.status, snapshot, servers, svc)

\* Mutant: the request is recorded before the init node is looked up.
createEtcdSnapshot_StartFirst(controlPlane, status, init, boot, initNode, servers, svc) ==
  LET reset == resetEtcdSnapshotCreateState(status)
      snapshot == controlPlane.spec
      start == startOrRestartEtcdSnapshotCreate(status, snapshot)
  IN IF controlPlane.spec = Nil THEN Return(reset.status, reset.err)
     ELSE IF ~init \/ ~boot THEN Return(status, NilErr)
     ELSE IF start.err # NilErr THEN Return(start.status, start.err)
     ELSE IF initNode = "err" THEN Return(status, errorsNew(<<MsgInitNode>>))
     ELSE IF initNode # "found" THEN Return(status, NilErr)
     ELSE phaseSwitch(controlPlane.status.phase, start.status, snapshot, servers, svc)

\* Mutant: the call goes on to the phase switch after recording a request.
createEtcdSnapshot_NoEarlyReturn(controlPlane, status, init, boot, initNode, servers, svc) ==
  LET reset == resetEtcdSnapshotCreateState(status)
      snapshot == controlPlane.spec
      start == startOrRestartEtcdSnapshotCreate(status, snapshot)
  IN IF controlPlane.spec = Nil THEN Return(reset.status, reset.err)
     ELSE IF ~init \/ ~boot THEN Return(status, NilErr)
     ELSE IF initNode = "err" THEN Return(status, errorsNew(<<MsgInitNode>>))
     ELSE IF initNode # "found" THEN Return(status, NilErr)
     ELSE phaseSwitch(start.status.phase, start.status, snapshot, servers, svc)

\* createEtcdSnapshot(controlPlane, status, tokensSecret, clusterPlan):
\* controlPlane is [spec, status]; init and boot are status.Initialized and
\* the Bootstrapped condition; initNode, servers and svc are what the cluster
\* plan and the nodes answer.
createEtcdSnapshot(controlPlane, status, init, boot, initNode, servers, svc) ==
  LET reset == resetEtcdSnapshotCreateState(status)
      snapshot == controlPlane.spec
      start == startOrRestartEtcdSnapshotCreate(status, snapshot)
  IN IF controlPlane.spec = Nil THEN Return(reset.status, reset.err)
     ELSE IF ~init \/ ~boot THEN Return(status, NilErr)
     ELSE IF initNode = "err" THEN Return(status, errorsNew(<<MsgInitNode>>))
     ELSE IF initNode # "found" THEN Return(status, NilErr)
     ELSE IF start.err # NilErr THEN Return(start.status, start.err)
     ELSE phaseSwitch(controlPlane.status.phase, start.status, snapshot, servers, svc)

\* ------------------------------------------------- S3 backend arguments

\* A nil *ETCDSnapshotS3.
NilS3 == [nil |-> TRUE]

\* Endpoint CA values: certificate contents, the file paths derived from
\* them, and a path that is derived from no known content.
CAContents == {"PEM1", "PEM2"}
CAPaths == {"s3-endpoint-ca-PEM1.crt", "s3-endpoint-ca-PEM2.crt", "custom.crt"}

\* The ETCDSnapshotS3 structs of a request; a string field is blank or set.
S3Specs ==
  [nil : {FALSE},
   Bucket : {"", "req"}, Endpoint : {"", "req"}, Folder : {"", "req"},
   CloudCredentialName : {"", "cc-req"}, Region : {"", "req"},
   SkipSSLVerify : BOOLEAN,
   EndpointCA : {""} \cup {"PEM1"} \cup CAPaths]

\* The keys of a cloud credential secret, with their namespacing prefix.
SecretKeys ==
  {"s3credentialConfig-accessKey", "s3credentialConfig-secretKey",
   "s3credentialConfig-defaultRegion", "s3credentialConfig-defaultEndpoint",
   "s3credentialConfig-defaultEndpointCA",
   "s3credentialConfig-defaultSkipSSLVerify",
   "s3credentialConfig-defaultBucket", "s3credentialConfig-defaultFolder"}

\* The data a secret may hold under each key.
SecretValues(k) ==
  CASE k = "s3credentialConfig-defaultEndpointCA" -> {""} \cup CAContents
    [] k = "s3credentialConfig-defaultSkipSSLVerify" -> {"", "true"}
    [] OTHER -> {"", "cred"}

SecretDatas == {d \in [SecretKeys -> {"", "cred", "true"} \cup CAContents] :
                  \A k \in SecretKeys : d[k] \in SecretValues(k)}

\* The secret cache holds one cloud credential secret, under its name.
SecretCaches == [name : {"cc-req", "cc-cluster"}, data : SecretDatas]

\* Mutant: the second argument wins when it is not blank.
first_SecondWins(one, two) == IF two = "" THEN one ELSE two

\* first returns the first non-blank string of its two arguments.
first(one, two) == IF one = "" THEN two ELSE one

\* Mutant: only the bucket enables S3.
S3Enabled_BucketOnly(s3spec) ==
  IF s3spec.nil THEN FALSE ELSE s3spec.Bucket # ""

S3Enabled(s3spec) ==
  IF s3spec.nil THEN FALSE
  ELSE \/ s3spec.Bucket # ""
       \/ s3spec.Endpoint # ""
       \/ s3spec.Folder # ""
       \/ s3spec.CloudCredentialName # ""
       \/ s3spec.Region # ""

\* kv.RSplit(k, "-"): the part of the key after its last "-".
kvRSplit(k) ==
  CASE k = "s3credentialConfig-accessKey" -> "accessKey"
    [] k = "s3credentialConfig-secretKey" -> "secretKey"
    [] k = "s3credentialConfig-defaultRegion" -> "defaultRegion"
    [] k = "s3credentialConfig-defaultEndpoint" -> "defaultEndpoint"
    [] k = "s3credentialConfig-defaultEndpointCA" -> "defaultEndpointCA"
    [] k = "s3credentialConfig-defaultSkipSSLVerify" -> "defaultSkipSSLVerify"
    [] k = "s3credentialConfig-defaultBucket" -> "defaultBucket"
    [] OTHER -> "defaultFolder"

EmptyS3Credential ==
  [AccessKey |-> "", SecretKey |-> "", Region |-> "", Endpoint |-> "",
   EndpointCA |-> "", SkipSSLVerify |-> FALSE, Bucket |-> "", Folder |-> ""]

\* getS3Credential: an empty name gives the empty credential; a name that
\* is not in the cache gives an error; otherwise the secret's data, keyed
\* by the stripped keys, fills the credential.
getS3Credential(secretCache, name) ==
  IF name = "" THEN [cred |-> EmptyS3Credential, err |-> FALSE]
  ELSE IF secretCache.name # name THEN [cred |-> EmptyS3Credential, err |-> TRUE]
  ELSE LET data(f) == secretCache.data[CHOOSE k \in SecretKeys : kvRSplit(k) = f]
       IN [cred |-> [AccessKey |-> data("accessKey"),
                     SecretKey |-> data("secretKey"),
                     Region |-> data("defaultRegion"),
                     Endpoint |-> data("defaultEndpoint"),
                     EndpointCA |-> data("defaultEndpointCA"),
                     SkipSSLVerify |-> data("defaultSkipSSLVerify") = "true",
                     Bucket |-> data("defaultBucket"),
                     Folder |-> data("defaultFolder")],
           err |-> FALSE]

\* strings.HasSuffix(v, ".crt")
HasSuffixCrt(v) == v \in CAPaths

\* configFile(controlPlane, "s3-endpoint-ca-" + name.Hex(v, 5) + ".crt"):
\* the file path derived from the hash of v (distinct for distinct v).
caFilePath(v) ==
  CASE v = "PEM1" -> "s3-endpoint-ca-PEM1.crt"
    [] v = "PEM2" -> "s3-endpoint-ca-PEM2.crt"
    [] OTHER -> "s3-endpoint-ca-other.crt"

\* base64.StdEncoding.EncodeToString([]byte(v))
base64(v) == <<"base64", v>>

Arg(prefix, flag, value) == [prefix |-> prefix, flag |-> flag, value |-> value]

\* Mutant: a path is handled like certificate content and hashed again.
endpointCA_AlwaysHash(s3spec, s3Cred, prefix, v) ==
  IF v = "" THEN [args |-> <<>>, files |-> <<>>]
  ELSE [args |-> <<Arg(prefix, "s3-endpoint-ca", caFilePath(v))>>,
        files |-> <<[Content |-> base64(v), Path |-> caFilePath(v)]>>]

\* The arguments and files for the merged endpoint CA v.
endpointCA(s3spec, s3Cred, prefix, v) ==
  IF v = "" THEN [args |-> <<>>, files |-> <<>>]
  ELSE IF v = s3spec.EndpointCA /\ HasSuffixCrt(v)
  THEN [args |-> <<Arg(prefix, "s3-endpoint-ca", v)>>,
        files |-> IF s3Cred.EndpointCA # "" /\ caFilePath(s3Cred.EndpointCA) = v
                  THEN <<[Content |-> base64(s3Cred.EndpointCA),
                          Path |-> caFilePath(s3Cred.EndpointCA)]>>
                  ELSE <<>>]
  ELSE [args |-> <<Arg(prefix, "s3-endpoint-ca", caFilePath(v))>>,
        files |-> <<[Content |-> base64(v), Path |-> caFilePath(v)]>>]

\* No call of ToArgs is recorded.
NoToArgs == [called |-> FALSE]

NoOutput == [args |-> <<>>, env |-> <<>>, files |-> <<>>, err |-> FALSE]

\* The arguments ToArgs renders once the credential is resolved.
renderArgs(s3spec, s3Cred, prefix, secretKeyInEnv) ==
  LET opt(cond, arg) == IF cond THEN <<arg>> ELSE <<>>
      region == first(s3spec.Region, s3Cred.Region)
      folder == first(s3spec.Folder, s3Cred.Folder)
      endpoint == first(s3spec.Endpoint, s3Cred.Endpoint)
      ca == endpointCA(s3spec, s3Cred, prefix,
                       first(s3spec.EndpointCA, s3Cred.EndpointCA))
      args ==
        opt(s3spec.Bucket # "" \/ s3Cred.Bucket # "",
            Arg(prefix, "s3-bucket", first(s3spec.Bucket, s3Cred.Bucket)))
        \o opt(s3Cred.AccessKey # "", Arg(prefix, "s3-access-key", s3Cred.AccessKey))
        \o opt(s3Cred.SecretKey # "" /\ ~secretKeyInEnv,
               Arg(prefix, "s3-secret-key", s3Cred.SecretKey))
        \o opt(region # "", Arg(prefix, "s3-region", region))
        \o opt(folder # "", Arg(prefix, "s3-folder", folder))
        \o opt(endpoint # "", Arg(prefix, "s3-endpoint", endpoint))
        \o opt(s3spec.SkipSSLVerify \/ s3Cred.SkipSSLVerify,
               Arg(prefix, "s3-skip-ssl-verify", ""))
        \o ca.args
  IN [args |-> IF Len(args) > 0 THEN Append(args, Arg(prefix, "s3", "")) ELSE args,
      env |-> opt(s3Cred.SecretKey # "" /\ secretKeyInEnv,
                  [name |-> "AWS_SECRET_ACCESS_KEY", value |-> s3Cred.SecretKey]),
      files |-> ca.files,
      err |-> FALSE]

\* s3Args.ToArgs(s3, controlPlane, prefix, secretKeyInEnv): cpCredName is
\* controlPlane.Spec.ETCD.S3.CloudCredentialName ("" when ETCD or S3 is nil).
ToArgs(secretCache, s3spec, cpCredName, prefix, secretKeyInEnv) ==
  IF s3spec.nil THEN NoOutput
  ELSE IF ~S3Enabled(s3spec) THEN NoOutput
  ELSE LET credName == IF s3spec.CloudCredentialName = "" /\ cpCredName # ""
                       THEN cpCredName ELSE s3spec.CloudCredentialName
           got == getS3Credential(secretCache, credName)
       IN IF got.err THEN [NoOutput EXCEPT !.err = TRUE]
          ELSE renderArgs(s3spec, got.cred, prefix, secretKeyInEnv)

\* --------------------------------------------------------- state machine

VARIABLES
  status,       \* the persisted RKEControlPlaneStatus (phase, stored request)
  cpSpec,       \* controlPlane.Spec.ETCDSnapshotCreate, the operator's request
  initialized,  \* status.Initialized
  bootstrapped, \* capr.Bootstrapped.IsTrue(&status)
  initNode,     \* what findInitNode answers on the current cluster plan
  servers,      \* the etcd nodes of the cluster plan, each with its outcome
  svc,          \* what the service restart answers
  last,         \* the latest createEtcdSnapshot call since the inputs changed
  s3            \* the latest s3Args.ToArgs call: its inputs and what it returned

vars == <<status, cpSpec, initialized, bootstrapped, initNode, servers, svc, last, s3>>

env == <<cpSpec, initialized, bootstrapped, initNode, servers, svc>>

NoCall ==
  [called |-> FALSE, pre |-> [phase |-> PhaseNone, create |-> Nil], err |-> NilErr,
   dispatched |-> {}, attempted |-> {}, svcStarted |-> FALSE]

\* The status object is read from the store at every reconciliation, so the
\* state machine may start from any phase string and any stored request (the
\* default branch of the phase switch exists for that).
Init ==
  /\ status \in Statuses
  /\ cpSpec = Nil
  /\ initialized = FALSE
  /\ bootstrapped = FALSE
  /\ initNode = "none"
  /\ servers = <<>>
  /\ svc = "ok"
  /\ last = NoCall
  /\ s3 = NoToArgs

\* One reconciliation: createEtcdSnapshot runs on the persisted status and
\* the status it returns is persisted.
Reconcile ==
  LET r == createEtcdSnapshot([spec |-> cpSpec, status |-> status], status,
                              initialized, bootstrapped, initNode, servers, svc)
  IN /\ status' = r.status
     /\ last' = [called |-> TRUE, pre |-> status, err |-> r.err,
                 dispatched |-> r.dispatched, attempted |-> r.attempted,
                 svcStarted |-> r.svcStarted]
     /\ UNCHANGED <<env, s3>>

\* The operator sets, changes or removes the snapshot request.
SetRequest ==
  /\ \E r \in Requests \cup {Nil} : cpSpec' = r
  /\ last' = NoCall
  /\ UNCHANGED <<status, initialized, bootstrapped, initNode, servers, svc, s3>>

SetInitialized ==
  /\ initialized' = ~initialized
  /\ last' = NoCall
  /\ UNCHANGED <<status, cpSpec, bootstrapped, initNode, servers, svc, s3>>

SetBootstrapped ==
  /\ bootstrapped' = ~bootstrapped
  /\ last' = NoCall
  /\ UNCHANGED <<status, cpSpec, initialized, initNode, servers, svc, s3>>

SetInitNode ==
  /\ \E v \in InitNodeResults : initNode' = v
  /\ last' = NoCall
  /\ UNCHANGED <<status, cpSpec, initialized, bootstrapped, servers, svc, s3>>

\* An etcd node joins the cluster plan.
AddServer ==
  /\ Len(servers) < MaxServers
  /\ \E o \in Outcomes : servers' = Append(servers, o)
  /\ last' = NoCall
  /\ UNCHANGED <<status, cpSpec, initialized, bootstrapped, initNode, svc, s3>>

\* An etcd node leaves the cluster plan.
RemoveServer ==
  /\ Len(servers) > 0
  /\ servers' = SubSeq(servers, 1, Len(servers) - 1)
  /\ last' = NoCall
  /\ UNCHANGED <<status, cpSpec, initialized, bootstrapped, initNode, svc, s3>>

\* The outcome a node gives changes (a plan completes, fails, is in flight).
SetOutcome ==
  /\ \E i \in 1..Len(servers), o \in Outcomes : servers' = [servers EXCEPT ![i] = o]
  /\ last' = NoCall
  /\ UNCHANGED <<status, cpSpec, initialized, bootstrapped, initNode, svc, s3>>

SetService ==
  /\ \E v \in ServiceResults : svc' = v
  /\ last' = NoCall
  /\ UNCHANGED <<status, cpSpec, initialized, bootstrapped, initNode, servers, s3>>

Next ==
  \/ Reconcile
  \/ SetRequest
  \/ SetInitialized
  \/ SetBootstrapped
  \/ SetInitNode
  \/ AddServer
  \/ RemoveServer
  \/ SetOutcome
  \/ SetService

Spec == Init /\ [][Next]_vars

\* -------------------------------------------------- ToArgs specification

etcdVars == <<status, cpSpec, initialized, bootstrapped, initNode, servers, svc, last>>

\* No call of ToArgs yet; the snapshot state machine is idle.
S3Init ==
  /\ status = [phase |-> PhaseNone, create |-> Nil]
  /\ cpSpec = Nil
  /\ initialized = FALSE
  /\ bootstrapped = FALSE
  /\ initNode = "none"
  /\ servers = <<>>
  /\ svc = "ok"
  /\ last = NoCall
  /\ s3 = NoToArgs

\* One call of ToArgs, on any request, cluster level credential name,
\* secret cache, prefix and secret key mode.
ToArgsCall ==
  /\ ~s3.called
  /\ \E s3spec \in S3Specs \cup {NilS3}, cpCredName \in {"", "cc-cluster"},
        secretCache \in SecretCaches, prefix \in {"etcd-"},
        secretKeyInEnv \in BOOLEAN :
       s3' = [called |-> TRUE, s3 |-> s3spec, cpCredName |-> cpCredName,
              secretCache |-> secretCache, prefix |-> prefix,
              secretKeyInEnv |-> secretKeyInEnv,
              out |-> ToArgs(secretCache, s3spec, cpCredName, prefix, secretKeyInEnv)]
  /\ UNCHANGED etcdVars

\* The call has returned; the next one may use other inputs.
ToArgsReturn ==
  /\ s3.called
  /\ s3' = NoToArgs
  /\ UNCHANGED etcdVars

S3Next ==
  \/ ToArgsCall
  \/ ToArgsReturn

SpecS3 == S3Init /\ [][S3Next]_vars

\* ----------------------------------------------------------------- claims

AnyRequest == Requests \cup {Nil}

\* The latest call found a request, an initialized and bootstrapped cluster
\* and an init node, and the stored request equal to the operator's: it
\* reached the switch on the phase.
ReachedSwitch ==
  /\ last.called
  /\ cpSpec \in Requests
  /\ initialized /\ bootstrapped /\ initNode = "found"
  /\ last.pre.create = cpSpec

\* The latest call ran the case of phase Started.
InStarted == ReachedSwitch /\ last.pre.phase = ETCDSnapshotPhaseStarted

NothingDispatched ==
  last.dispatched = {} /\ last.attempted = {} /\ ~last.svcStarted

InText(token, err) == \E k \in 1..Len(err.text) : err.text[k] = token

\* C1: whenever createEtcdSnapshot returns a status that differs from the
\* status it was given in the phase or in the stored request, the error it
\* returns is a waiting condition; the same holds for
\* setEtcdSnapshotCreateState (for every request and phase) and for
\* resetEtcdSnapshotCreateState.
C1_ChangeSignalsWaiting ==
  /\ (last.called /\ status # last.pre) => IsErrWaiting(last.err)
  /\ \A c \in AnyRequest, p \in Phases :
       LET r == setEtcdSnapshotCreateState(status, c, p)
       IN r.status # status => IsErrWaiting(r.err)
  /\ LET r == resetEtcdSnapshotCreateState(status)
     IN r.status # status => IsErrWaiting(r.err)

C1_Witness ==
  /\ last.called
  /\ last.pre.phase = ETCDSnapshotPhaseStarted
  /\ status.phase = ETCDSnapshotPhaseRestartCluster
  /\ IsErrWaiting(last.err)

\* C2: the persisted phase changes only along the edges any -> Started (the
\* stored request missing or different from the operator's, or the phase
\* empty or unrecognized), Started -> Failed, Started -> RestartCluster,
\* RestartCluster -> Finished, and any -> None when the operator's request
\* is removed.
C2_PhaseEdges ==
  [][status'.phase # status.phase =>
       \/ /\ status'.phase = ETCDSnapshotPhaseStarted
          /\ cpSpec \in Requests
          /\ \/ status.create = Nil
             \/ status.create # cpSpec
             \/ status.phase \in {PhaseNone, PhaseUnknown}
       \/ /\ status.phase = ETCDSnapshotPhaseStarted
          /\ status'.phase \in {ETCDSnapshotPhaseFailed, ETCDSnapshotPhaseRestartCluster}
       \/ /\ status.phase = ETCDSnapshotPhaseRestartCluster
          /\ status'.phase = ETCDSnapshotPhaseFinished
       \/ /\ status'.phase = PhaseNone
          /\ cpSpec = Nil]_vars

C2_Witness ==
  /\ last.called
  /\ last.pre.phase = ETCDSnapshotPhaseFinished
  /\ status.phase = PhaseNone
  /\ cpSpec = Nil

\* Every node's plan is generated and dispatched with success, the service
\* restart succeeds, and the guards of createEtcdSnapshot pass.
AllSucceed ==
  /\ cpSpec \in Requests
  /\ initialized /\ bootstrapped /\ initNode = "found"
  /\ Len(servers) >= 1
  /\ \A i \in 1..Len(servers) : servers[i] = "ok"
  /\ svc = "ok"

HappyNext(phase) ==
  CASE phase = PhaseNone -> ETCDSnapshotPhaseStarted
    [] phase = ETCDSnapshotPhaseStarted -> ETCDSnapshotPhaseRestartCluster
    [] OTHER -> ETCDSnapshotPhaseFinished

\* C3: with a fixed request and everything succeeding, each reconciliation
\* moves the phase by exactly one edge of None -> Started -> RestartCluster
\* -> Finished (and Finished stays), from the empty status onwards.
C3_MonotonicProgress ==
  [][(/\ last'.called
      /\ AllSucceed
      /\ \/ status = [phase |-> PhaseNone, create |-> Nil]
         \/ /\ status.create = cpSpec
            /\ status.phase \in {ETCDSnapshotPhaseStarted,
                                 ETCDSnapshotPhaseRestartCluster,
                                 ETCDSnapshotPhaseFinished})
     => /\ status'.phase = HappyNext(status.phase)
        /\ status'.create = cpSpec]_vars

C3_Witness ==
  /\ last.called
  /\ AllSucceed
  /\ last.pre = [phase |-> ETCDSnapshotPhaseRestartCluster, create |-> cpSpec]
  /\ status = [phase |-> ETCDSnapshotPhaseFinished, create |-> cpSpec]

\* The latest call found a stored request and a structurally different
\* request of the operator.
RequestChanged ==
  /\ last.called
  /\ last.pre.create \in Requests
  /\ cpSpec \in Requests
  /\ cpSpec # last.pre.create

Restarted ==
  /\ status = [phase |-> ETCDSnapshotPhaseStarted, create |-> cpSpec]
  /\ IsErrWaiting(last.err)

\* C4 as stated: a changed request on an initialized cluster with an init
\* node gives phase Started, the new request stored, and a waiting condition.
C4_Original ==
  (RequestChanged /\ initialized /\ initNode = "found") => Restarted

\* C4: a changed request on an initialized and bootstrapped cluster with
\* an init node gives phase Started, the new request stored as a whole, and
\* a waiting condition, whatever the phase was.
C4_RestartOnChange ==
  (RequestChanged /\ initialized /\ bootstrapped /\ initNode = "found") => Restarted

C4_Witness ==
  /\ RequestChanged /\ initialized /\ bootstrapped /\ initNode = "found"
  /\ last.pre.phase = ETCDSnapshotPhaseFinished
  /\ Restarted

\* Exactly node i fails with a terminal error and every other node succeeds.
OnlyFailed(i) ==
  /\ servers[i] = "failed"
  /\ \A j \in 1..Len(servers) : j # i => servers[j] = "ok"

\* C5: in phase Started, when exactly one node's dispatch returns a terminal
\* error and all others succeed, the returned phase is Failed, the request
\* is unchanged, and the returned error's text contains that node's error.
C5_OneFailureFails ==
  \A i \in 1..Len(servers) :
    (InStarted /\ OnlyFailed(i)) =>
      /\ status = [phase |-> ETCDSnapshotPhaseFailed, create |-> last.pre.create]
      /\ InText(<<"etcd snapshot failed on node", i>>, last.err)

C5_Witness ==
  /\ InStarted
  /\ Len(servers) = 2
  /\ OnlyFailed(2)
  /\ status.phase = ETCDSnapshotPhaseFailed

\* C6: in phase Started, when every node's dispatch returns a waiting
\* condition the status is returned unchanged with a waiting condition; and
\* whenever some node is waiting and none has a terminal error the phase
\* does not advance to RestartCluster.
C6_WaitingHolds ==
  /\ (/\ InStarted
      /\ Len(servers) >= 1
      /\ \A i \in 1..Len(servers) : servers[i] = "waiting")
     => (status = last.pre /\ IsErrWaiting(last.err))
  /\ (/\ InStarted
      /\ \E i \in 1..Len(servers) : servers[i] \in {"waiting", "genwaiting"}
      /\ \A i \in 1..Len(servers) : servers[i] \notin {"failed", "genfailed"})
     => (status.phase # ETCDSnapshotPhaseRestartCluster /\ IsErrWaiting(last.err))

C6_Witness ==
  /\ InStarted
  /\ Len(servers) = 2
  /\ servers[1] = "ok" /\ servers[2] = "waiting"
  /\ status = last.pre

\* The latest call found phase Failed or Finished and the stored request
\* equal to the operator's.
Terminal ==
  /\ last.called
  /\ last.pre.phase \in {ETCDSnapshotPhaseFailed, ETCDSnapshotPhaseFinished}
  /\ cpSpec \in Requests
  /\ last.pre.create = cpSpec

\* C7 as stated: in phase Failed or Finished with an unchanged request every
\* call returns the status unchanged and a nil error and dispatches nothing.
C7_Original ==
  Terminal => (status = last.pre /\ last.err = NilErr /\ NothingDispatched)

\* C7: in phase Failed or Finished with an unchanged request every call
\* returns the status unchanged and dispatches nothing, whatever the nodes
\* would answer; the error is nil, except that an error of the init node
\* lookup (on an initialized, bootstrapped cluster) is returned as it is.
C7_TerminalNoOp ==
  Terminal =>
    /\ status = last.pre
    /\ NothingDispatched
    /\ last.err = IF initialized /\ bootstrapped /\ initNode = "err"
                  THEN errorsNew(<<MsgInitNode>>) ELSE NilErr

C7_Witness ==
  /\ Terminal
  /\ initialized /\ bootstrapped /\ initNode = "found"
  /\ Len(servers) = 2 /\ servers[1] = "failed"
  /\ status = last.pre
  /\ last.err = NilErr

\* A status the state machine itself writes: empty, or a known phase with
\* a stored request.
WrittenStatus(s) ==
  \/ s = [phase |-> PhaseNone, create |-> Nil]
  \/ /\ s.create \in Requests
     /\ s.phase \in {ETCDSnapshotPhaseStarted, ETCDSnapshotPhaseRestartCluster,
                     ETCDSnapshotPhaseFinished, ETCDSnapshotPhaseFailed}

\* C8 as stated: on a cluster that is not initialized or not bootstrapped
\* every call returns the status unchanged and a nil error and dispatches
\* nothing, also when the operator's request is absent (here only for the
\* statuses the state machine itself writes).
C8_Original ==
  (last.called /\ WrittenStatus(last.pre) /\ (~initialized \/ ~bootstrapped)) =>
    (status = last.pre /\ last.err = NilErr /\ NothingDispatched)

\* C8: on a cluster that is not initialized or not bootstrapped a call with
\* a request present returns the status unchanged and a nil error and
\* dispatches nothing; with the request absent it dispatches nothing and
\* clears a stored phase or request, returning a waiting condition.
C8_UninitializedNoOp ==
  (last.called /\ (~initialized \/ ~bootstrapped)) =>
    /\ NothingDispatched
    /\ cpSpec \in Requests => (status = last.pre /\ last.err = NilErr)
    /\ cpSpec = Nil =>
         /\ status = [phase |-> PhaseNone, create |-> Nil]
         /\ last.err = IF status = last.pre THEN NilErr
                       ELSE errWaiting(<<MsgRefreshing>>)

C8_Witness ==
  /\ last.called
  /\ initialized /\ ~bootstrapped
  /\ cpSpec \in Requests
  /\ last.pre.create # cpSpec
  /\ status = last.pre
  /\ last.err = NilErr

\* C9 as stated: in phase Started with no etcd node the call returns a
\* terminal (non-waiting) error.
C9_Original ==
  (InStarted /\ Len(servers) = 0) => last.err.kind = "error"

\* C9: in phase Started with no etcd node the 'failed to find node' error
\* is folded into the aggregate: the phase becomes Failed and the call
\* returns a waiting condition whose text contains that error's message.
C9_NoNodeFolded ==
  (InStarted /\ Len(servers) = 0) =>
    /\ status = [phase |-> ETCDSnapshotPhaseFailed, create |-> last.pre.create]
    /\ IsErrWaiting(last.err)
    /\ InText(MsgNoNode, last.err)
    /\ NothingDispatched

C9_Witness ==
  /\ InStarted
  /\ Len(servers) = 0
  /\ status.phase = ETCDSnapshotPhaseFailed
  /\ InText(MsgNoNode, last.err)

\* The message of node i's error in a call, if it has one.
NodeMessage(i) ==
  CASE servers[i] = "failed" -> <<"etcd snapshot failed on node", i>>
    [] servers[i] = "waiting" -> <<"etcd snapshot waiting on node", i>>
    [] servers[i] = "genfailed" -> <<"plan generation failed", i>>
    [] servers[i] = "genwaiting" -> <<"plan generation waiting", i>>
    [] OTHER -> <<"", i>>

\* C10: in phase Started one call attempts every etcd node and the text of
\* the error it returns contains the message of every node's error.
C10_AllNodesCollected ==
  (InStarted /\ Len(servers) >= 1) =>
    /\ last.attempted = 1..Len(servers)
    /\ \A i \in 1..Len(servers) :
         servers[i] # "ok" => InText(NodeMessage(i), last.err)

\* The servers in the iteration order perm (a permutation of their indexes).
Reordered(perm) == [i \in 1..Len(servers) |-> servers[perm[i]]]

\* C11: in phase Started the resulting phase and the class of the returned
\* error (nil, waiting, terminal) are the same for every iteration order of
\* the etcd nodes.
C11_OrderInsensitive ==
  InStarted =>
    \A perm \in Permutations(1..Len(servers)) :
      LET r == phaseStarted(last.pre, cpSpec, Reordered(perm))
      IN r.status.phase = status.phase /\ r.err.kind = last.err.kind

\* C12: setEtcdSnapshotCreateState returns a waiting condition exactly when
\* it changes the phase or the stored request, and a second call with the
\* same request and phase on the returned status changes nothing and
\* returns nil.
C12_SetterIdempotent ==
  \A c \in AnyRequest, p \in Phases :
    LET one == setEtcdSnapshotCreateState(status, c, p)
        two == setEtcdSnapshotCreateState(one.status, c, p)
    IN /\ one.status = [phase |-> p, create |-> c]
       /\ IsErrWaiting(one.err) <=> one.status # status
       /\ one.err = NilErr <=> one.status = status
       /\ two.status = one.status
       /\ two.err = NilErr

\* A reconciliation has just stored a new phase through the setter, and the
\* setter called again on it with the same arguments returns nil.
C12_Witness ==
  /\ last.called
  /\ status # last.pre
  /\ status.phase = ETCDSnapshotPhaseFinished
  /\ IsErrWaiting(last.err)
  /\ setEtcdSnapshotCreateState(status, status.create, status.phase).err = NilErr

\* The errors the fan-out of the latest call returned.
FanOutErrs == runEtcdSnapshotCreate(servers).errs

Count(token, err) == Cardinality({k \in 1..Len(err.text) : err.text[k] = token})

TerminalAt(errs) == {k \in 1..Len(errs) : ~IsErrWaiting(errs[k])}

\* C17: in phase Started, when the fan-out returns two or more terminal
\* errors, the first of them changes the status to Failed and no later error
\* changes it again; the composite text holds each returned error once and
\* the setter's signal once.
C17_FailedOnce ==
  (InStarted /\ Cardinality(TerminalAt(FanOutErrs)) >= 2) =>
    LET errs == FanOutErrs
        firstTerminal == CHOOSE k \in TerminalAt(errs) : \A j \in TerminalAt(errs) : k <= j
        after(k) == collectErrs(SubSeq(errs, 1, k), last.pre, cpSpec, <<>>, FALSE).status
    IN /\ status = [phase |-> ETCDSnapshotPhaseFailed, create |-> last.pre.create]
       /\ \A k \in 1..Len(errs) :
            after(k) = IF k < firstTerminal THEN last.pre ELSE status
       /\ Count(MsgRefreshing, last.err) = 1
       /\ \A k \in 1..Len(errs) : Count(errs[k].text[1], last.err) = 1
       /\ Len(last.err.text) = Len(errs) + 1

C17_Witness ==
  /\ InStarted
  /\ Len(servers) = 2
  /\ servers[1] = "failed" /\ servers[2] = "failed"
  /\ status.phase = ETCDSnapshotPhaseFailed
  /\ Count(MsgRefreshing, last.err) = 1

\* C18: with a request present on an initialized and bootstrapped cluster,
\* a call that finds no init node (or an empty join address) returns the
\* status unchanged and a nil error and dispatches nothing, also when the
\* request differs from the stored one; an error of the init node lookup
\* is returned as an error with the status unchanged.
C18_NoInitNodeSkips ==
  (last.called /\ cpSpec \in Requests /\ initialized /\ bootstrapped) =>
    /\ initNode \in {"none", "nojoin"} =>
         (status = last.pre /\ last.err = NilErr /\ NothingDispatched)
    /\ initNode = "err" =>
         (status = last.pre /\ last.err.kind = "error" /\ NothingDispatched)

C18_Witness ==
  /\ last.called /\ cpSpec \in Requests /\ initialized /\ bootstrapped
  /\ initNode = "nojoin"
  /\ last.pre.create \in Requests /\ last.pre.create # cpSpec
  /\ status = last.pre
  /\ last.err = NilErr

\* C20: a call dispatches a snapshot plan to a node only if, at its entry,
\* the persisted phase is Started and the stored request equals the
\* operator's request; a call that records a new or changed request, or
\* that finds any other phase, dispatches nothing.
C20_DispatchOnlyWhenStarted ==
  last.called =>
    /\ last.attempted # {} =>
         /\ last.pre.phase = ETCDSnapshotPhaseStarted
         /\ cpSpec \in Requests
         /\ last.pre.create = cpSpec
    /\ last.dispatched \subseteq last.attempted
    /\ (cpSpec \in Requests /\ last.pre.create # cpSpec) => NothingDispatched

C20_Witness ==
  /\ InStarted
  /\ last.dispatched = {1, 2}

\* ------------------------------------------- repeated fair reconciliation

\* All sequences of node outcomes the cluster plan may hold.
ServerSeqs == UNION {[1..n -> Outcomes] : n \in 0..MaxServers}

\* A fixed request on an initialized cluster with an init node; the status,
\* the bootstrap condition, the nodes and their answers are arbitrary.
LiveInit ==
  /\ status \in Statuses
  /\ cpSpec = "A"
  /\ initialized = TRUE
  /\ bootstrapped \in BOOLEAN
  /\ initNode = "found"
  /\ servers \in ServerSeqs
  /\ svc \in ServiceResults
  /\ last = NoCall
  /\ s3 = NoToArgs

\* An operation on a node stops waiting: it succeeds or fails for good.
SettleNode ==
  /\ \E i \in 1..Len(servers) :
       \/ /\ servers[i] = "waiting"
          /\ \E o \in {"ok", "failed"} : servers' = [servers EXCEPT ![i] = o]
       \/ /\ servers[i] = "genwaiting"
          /\ \E o \in {"ok", "genfailed"} : servers' = [servers EXCEPT ![i] = o]
  /\ last' = NoCall
  /\ UNCHANGED <<status, cpSpec, initialized, bootstrapped, initNode, svc, s3>>

\* The service restart stops waiting: it succeeds or fails for good.
SettleService ==
  /\ svc = "waiting"
  /\ \E v \in {"ok", "failed"} : svc' = v
  /\ last' = NoCall
  /\ UNCHANGED <<status, cpSpec, initialized, bootstrapped, initNode, servers, s3>>

LiveNext ==
  \/ Reconcile
  \/ SettleNode
  \/ SettleService

\* The controller reconciles again and again, and every operation in flight
\* eventually stops waiting.
SpecLive ==
  /\ LiveInit
  /\ [][LiveNext]_vars
  /\ WF_vars(Reconcile)
  /\ WF_vars(SettleNode)
  /\ WF_vars(SettleService)

PhaseTerminal ==
  status.phase \in {ETCDSnapshotPhaseFinished, ETCDSnapshotPhaseFailed}

\* C19 as stated (on a bootstrapped cluster): under fair reconciliation with
\* every operation ending in success or in a terminal error, the phase
\* eventually is Finished or Failed and stays so.
C19_Original == ~bootstrapped \/ <>[]PhaseTerminal

\* C19: for a fixed request on an initialized and bootstrapped cluster with
\* an init node, under fair reconciliation in which every snapshot plan
\* ends in success or in a terminal error and the service restart does not
\* end in a terminal error, the phase eventually is Finished or Failed and
\* stays so.
C19_Transient == <>[](PhaseTerminal \/ ~bootstrapped \/ svc = "failed")

C19_Witness ==
  /\ last.called
  /\ bootstrapped
  /\ svc = "ok"
  /\ last.pre.phase = ETCDSnapshotPhaseRestartCluster
  /\ status.phase = ETCDSnapshotPhaseFinished

\* ------------------------------------------------------- claims on ToArgs

\* The credential name ToArgs resolves, and the secret's value for a key
\* when that name is resolved ("" with no name).
ResolvedName ==
  IF s3.s3.CloudCredentialName # "" THEN s3.s3.CloudCredentialName ELSE s3.cpCredName

SecretField(k) == IF ResolvedName = "" THEN "" ELSE s3.secretCache.data[k]

\* The latest call had a request and returned no error.
Succeeded == s3.called /\ ~s3.s3.nil /\ ~s3.out.err

\* The request sets one of the fields that identify a target.
Identified ==
  /\ ~s3.s3.nil
  /\ \/ s3.s3.Bucket # ""
     \/ s3.s3.Endpoint # ""
     \/ s3.s3.Folder # ""
     \/ s3.s3.CloudCredentialName # ""
     \/ s3.s3.Region # ""

\* The latest call had an identified target and resolved the credential.
Resolved == Succeeded /\ Identified

ArgsWith(flag) == {k \in 1..Len(s3.out.args) : s3.out.args[k].flag = flag}

\* Exactly one argument carries the flag, with this value and the prefix.
Emits(flag, value) ==
  /\ Cardinality(ArgsWith(flag)) = 1
  /\ \A k \in ArgsWith(flag) :
       s3.out.args[k].value = value /\ s3.out.args[k].prefix = s3.prefix

Absent(flag) == ArgsWith(flag) = {}

HasFile(path, content) ==
  \E k \in 1..Len(s3.out.files) :
    s3.out.files[k] = [Content |-> base64(content), Path |-> path]

\* The field is emitted with the request's value when that is not blank,
\* else with the credential's, and not at all when both are blank.
Precedence(flag, req, cred) ==
  LET want == IF req # "" THEN req ELSE cred
  IN IF want = "" THEN Absent(flag) ELSE Emits(flag, want)

\* The endpoint CA is carried: a path of the request as it is, certificate
\* content as a file holding it, referenced by the file's path.
CACarried(want) ==
  IF want \in CAPaths THEN Emits("s3-endpoint-ca", want)
  ELSE Emits("s3-endpoint-ca", caFilePath(want)) /\ HasFile(caFilePath(want), want)

C14_FinalFlag ==
  s3.called =>
    /\ Len(s3.out.args) > 0 =>
         /\ s3.out.args[Len(s3.out.args)] = Arg(s3.prefix, "s3", "")
         /\ Cardinality(ArgsWith("s3")) = 1
    /\ Len(s3.out.args) = 0 => (s3.out.env = <<>> /\ s3.out.files = <<>>)

\* The request sets the field, or skip-verify.
OperatorFields ==
  /\ s3.s3.Bucket # "" => Emits("s3-bucket", s3.s3.Bucket)
  /\ s3.s3.Region # "" => Emits("s3-region", s3.s3.Region)
  /\ s3.s3.Folder # "" => Emits("s3-folder", s3.s3.Folder)
  /\ s3.s3.Endpoint # "" => Emits("s3-endpoint", s3.s3.Endpoint)
  /\ s3.s3.EndpointCA # "" => CACarried(s3.s3.EndpointCA)
  /\ s3.s3.SkipSSLVerify => Emits("s3-skip-ssl-verify", "")

\* No field that is blank in the request and in the credential is in the
\* output.
NothingInvented ==
  LET blank(req, k) == req = "" /\ SecretField(k) = ""
  IN /\ blank(s3.s3.Bucket, "s3credentialConfig-defaultBucket") => Absent("s3-bucket")
     /\ blank(s3.s3.Region, "s3credentialConfig-defaultRegion") => Absent("s3-region")
     /\ blank(s3.s3.Folder, "s3credentialConfig-defaultFolder") => Absent("s3-folder")
     /\ blank(s3.s3.Endpoint, "s3credentialConfig-defaultEndpoint") => Absent("s3-endpoint")
     /\ blank(s3.s3.EndpointCA, "s3credentialConfig-defaultEndpointCA") =>
          (Absent("s3-endpoint-ca") /\ s3.out.files = <<>>)
     /\ (~s3.s3.SkipSSLVerify
         /\ SecretField("s3credentialConfig-defaultSkipSSLVerify") # "true") =>
          Absent("s3-skip-ssl-verify")
     /\ blank("", "s3credentialConfig-accessKey") => Absent("s3-access-key")
     /\ blank("", "s3credentialConfig-secretKey") =>
          (Absent("s3-secret-key") /\ s3.out.env = <<>>)

\* C15 as stated: whenever credential resolution succeeds, every field the
\* operator set is in the output with the operator's value, also when only
\* the endpoint CA or skip-verify is set; and no field is invented.
C15_Original == Succeeded => (OperatorFields /\ NothingInvented)

\* C15: when the request sets an identifying field (bucket, endpoint,
\* folder, credential name or region) and the credential is resolved, every
\* field the operator set is in the output with the operator's value and no
\* field blank on both sides is; a request that sets none of the
\* identifying fields gives no output, whatever its endpoint CA and
\* skip-verify.
C15_NoSilentDrop ==
  /\ Resolved => (OperatorFields /\ NothingInvented)
  /\ (s3.called /\ ~Identified) => s3.out = NoOutput

C15_Witness ==
  /\ Resolved
  /\ s3.s3.Region = "req" /\ s3.s3.Bucket = ""
  /\ s3.s3.EndpointCA = "PEM1" /\ s3.s3.SkipSSLVerify
  /\ SecretField("s3credentialConfig-defaultEndpointCA") = "PEM2"
  /\ HasFile(caFilePath("PEM1"), "PEM1")
  /\ Emits("s3-skip-ssl-verify", "")

\* The output of a second call that differs from the latest call only in
\* the request's endpoint CA.
SecondCall(ca) ==
  ToArgs(s3.secretCache, [s3.s3 EXCEPT !.EndpointCA = ca], s3.cpCredName,
         s3.prefix, s3.secretKeyInEnv)

\* The request's endpoint CA is the path derived from the credential's CA.
PathOfCredentialCA ==
  /\ Resolved
  /\ SecretField("s3credentialConfig-defaultEndpointCA") # ""
  /\ s3.s3.EndpointCA = caFilePath(SecretField("s3credentialConfig-defaultEndpointCA"))

\* One file, at the request's path with the credential's CA, and one
\* endpoint CA argument with that path.
OneFileOneArg ==
  /\ s3.out.files =
       <<[Content |-> base64(SecretField("s3credentialConfig-defaultEndpointCA")),
          Path |-> s3.s3.EndpointCA]>>
  /\ Emits("s3-endpoint-ca", s3.s3.EndpointCA)

\* The latest call wrote certificate content (of the request, or else of
\* the credential) to a file.
WroteContent ==
  /\ Resolved
  /\ first(s3.s3.EndpointCA, SecretField("s3credentialConfig-defaultEndpointCA"))
       \in CAContents

\* A second call, given the path of the first call's file as the request's
\* CA, returns the same file and references the same path.
RoundTrip ==
  LET path == s3.out.files[1].Path
      two == SecondCall(path)
  IN /\ Len(s3.out.files) = 1
     /\ two.files = s3.out.files
     /\ \E k \in 1..Len(two.args) :
          two.args[k] = Arg(s3.prefix, "s3-endpoint-ca", path)

\* C16 as stated: a request CA that is the path of the credential's CA
\* gives one file and one argument with that path; and the path of any
\* call that wrote certificate content, fed back as the request's CA, gives
\* the same file path and content.
C16_Original ==
  /\ PathOfCredentialCA => OneFileOneArg
  /\ WroteContent => RoundTrip

\* C16: a request CA that is the path of the credential's CA gives one
\* file, at that path with the credential's CA content, and one argument
\* with that path; and the path of a call that wrote the credential's CA
\* content, fed back as the request's CA, gives the same file path and
\* content.  Fed back when the credential holds other content or none, the
\* path is referenced and no file is written.
C16_CADedup ==
  /\ PathOfCredentialCA => OneFileOneArg
  /\ (/\ WroteContent
      /\ first(s3.s3.EndpointCA, SecretField("s3credentialConfig-defaultEndpointCA"))
           = SecretField("s3credentialConfig-defaultEndpointCA"))
     => RoundTrip
  /\ (/\ WroteContent
      /\ s3.s3.EndpointCA # SecretField("s3credentialConfig-defaultEndpointCA")
      /\ s3.s3.EndpointCA # "")
     => /\ SecondCall(s3.out.files[1].Path).files = <<>>
        /\ \E k \in 1..Len(SecondCall(s3.out.files[1].Path).args) :
             SecondCall(s3.out.files[1].Path).args[k]
               = Arg(s3.prefix, "s3-endpoint-ca", s3.out.files[1].Path)

C16_Witness ==
  /\ PathOfCredentialCA
  /\ s3.s3.EndpointCA = "s3-endpoint-ca-PEM2.crt"
  /\ OneFileOneArg

====
